---- MODULE Spec2Model ----
(***************************************************************************)
(* Model of scripts/build_cities_by_country.py: build_from_csv reads a     *)
(* CSV of world cities row by row, groups City Records by upper-cased      *)
(* iso2 code, keeps one Country Metadata Record per code, then writes one  *)
(* JSON file per country and the consolidated countries.json/.csv.         *)
(*                                                                         *)
(* A Python str is a sequence of one-character strings; None is the        *)
(* one-element sequence <<"None">>, which no str equals.  A Python number  *)
(* is a record [k, neg, ip, fr]: k is "float", "int", "inf", "nan" or      *)
(* "None", neg the sign, ip the integer part and fr the fractional digits  *)
(* with trailing zeros removed (an exact decimal).                         *)
(***************************************************************************)
EXTENDS Integers, Sequences, FiniteSets

\* ------------------------------------------------------------------ bounds
\* The longest CSV file read in a run, in data rows.
MaxRows == 3

\* --------------------------------------------------------- Python strings
None == <<"None">>

Lowers == <<"a","b","c","d","e","f","g","h","i","j","k","l","m",
            "n","o","p","q","r","s","t","u","v","w","x","y","z">>

Uppers == <<"A","B","C","D","E","F","G","H","I","J","K","L","M",
            "N","O","P","Q","R","S","T","U","V","W","X","Y","Z">>

Digits == <<"0","1","2","3","4","5","6","7","8","9">>

\* The characters of the model in code-point order (str comparison is by
\* code point).
CodePoints == <<" ", "+", "-", ".">> \o Digits \o Uppers \o Lowers

IsIn(ch, seq) == \E i \in 1..Len(seq) : seq[i] = ch

IndexOf(ch, seq) == CHOOSE i \in 1..Len(seq) : seq[i] = ch

Ord(ch) == IndexOf(ch, CodePoints)

\* str.upper() and str.lower(), character by character.
UpperCh(ch) == IF IsIn(ch, Lowers) THEN Uppers[IndexOf(ch, Lowers)] ELSE ch

LowerCh(ch) == IF IsIn(ch, Uppers) THEN Lowers[IndexOf(ch, Uppers)] ELSE ch

RECURSIVE Upper(_)
Upper(s) == IF s = <<>> THEN <<>> ELSE <<UpperCh(Head(s))>> \o Upper(Tail(s))

RECURSIVE Lower(_)
Lower(s) == IF s = <<>> THEN <<>> ELSE <<LowerCh(Head(s))>> \o Lower(Tail(s))

\* str.strip(): leading and trailing whitespace removed.
RECURSIVE LStrip(_)
LStrip(s) == IF s # <<>> /\ Head(s) = " " THEN LStrip(Tail(s)) ELSE s

RECURSIVE RStrip(_)
RStrip(s) ==
    IF s # <<>> /\ s[Len(s)] = " " THEN RStrip(SubSeq(s, 1, Len(s) - 1)) ELSE s

Strip(s) == RStrip(LStrip(s))

\* `value or ""`: None and the empty str are falsy.
OrEmpty(v) == IF v = None \/ v = <<>> THEN <<>> ELSE v

\* a < b and a <= b on str: lexicographic by code point.
RECURSIVE StrLess(_, _)
StrLess(a, b) ==
    IF b = <<>> THEN FALSE
    ELSE IF a = <<>> THEN TRUE
    ELSE IF Head(a) = Head(b) THEN StrLess(Tail(a), Tail(b))
    ELSE Ord(Head(a)) < Ord(Head(b))

\* --------------------------------------------------------- Python numbers
Num(k, neg, ip, fr) == [k |-> k, neg |-> neg, ip |-> ip, fr |-> fr]

PyNone == Num("None", FALSE, 0, <<>>)

\* The int 0 the writer substitutes, and the float float(0) gives.
IntZero == Num("int", FALSE, 0, <<>>)

FloatZero == Num("float", FALSE, 0, <<>>)

AllDigits(s) == \A i \in 1..Len(s) : IsIn(s[i], Digits)

RECURSIVE DigitsValue(_)
DigitsValue(s) ==
    IF s = <<>> THEN 0
    ELSE 10 * DigitsValue(SubSeq(s, 1, Len(s) - 1)) + (IndexOf(s[Len(s)], Digits) - 1)

RECURSIVE DropTrailingZeros(_)
DropTrailingZeros(s) ==
    IF s # <<>> /\ s[Len(s)] = "0" THEN DropTrailingZeros(SubSeq(s, 1, Len(s) - 1))
    ELSE s

\* The unsigned part of a float literal: "inf", "infinity", "nan" in any
\* case, or digits with at most one "." and at least one digit.  (The
\* model's strings hold no exponent and no underscore.)
ParseUnsigned(neg, u) ==
    LET low == Lower(u)
        dots == {i \in 1..Len(u) : u[i] = "."}
    IN  IF low = <<"i","n","f">> \/ low = <<"i","n","f","i","n","i","t","y">>
        THEN [ok |-> TRUE, val |-> Num("inf", neg, 0, <<>>)]
        ELSE IF low = <<"n","a","n">>
        THEN [ok |-> TRUE, val |-> Num("nan", FALSE, 0, <<>>)]
        ELSE IF u # <<>> /\ dots = {} /\ AllDigits(u)
        THEN [ok |-> TRUE, val |-> Num("float", neg, DigitsValue(u), <<>>)]
        ELSE IF Cardinality(dots) = 1
        THEN LET d == CHOOSE i \in dots : TRUE
                 ipart == SubSeq(u, 1, d - 1)
                 fpart == SubSeq(u, d + 1, Len(u))
             IN  IF AllDigits(ipart) /\ AllDigits(fpart) /\ Len(u) > 1
                 THEN [ok |-> TRUE,
                       val |-> Num("float", neg, DigitsValue(ipart),
                                   DropTrailingZeros(fpart))]
                 ELSE [ok |-> FALSE, val |-> PyNone]
        ELSE [ok |-> FALSE, val |-> PyNone]

\* float(s) for a str s: ok = FALSE is ValueError.
ParseFloat(s) ==
    LET t == Strip(s)
    IN  IF t # <<>> /\ Head(t) = "-" THEN ParseUnsigned(TRUE, Tail(t))
        ELSE IF t # <<>> /\ Head(t) = "+" THEN ParseUnsigned(FALSE, Tail(t))
        ELSE ParseUnsigned(FALSE, t)

\* float(value or 0): None and "" give float(0) = 0.0.
FloatOrZero(v) ==
    IF v = None \/ v = <<>> THEN [ok |-> TRUE, val |-> FloatZero] ELSE ParseFloat(v)

\* ------------------------------------------------------------- HELPERS
\* int(x) of a float: truncation toward zero; the two failures of int().
IntOfFloat(x) ==
    IF x.k = "inf" THEN [out |-> "OverflowError", val |-> PyNone]
    ELSE IF x.k = "nan" THEN [out |-> "ValueError", val |-> PyNone]
    ELSE [out |-> "ok", val |-> Num("int", x.neg /\ x.ip # 0, x.ip, <<>>)]

\* parse_population(value): out is "ok" (val returned) or the exception
\* that leaves the function; ValueError is caught and gives None.
parse_population(value) ==
    IF value = None \/ value = <<>> THEN [out |-> "ok", val |-> PyNone]
    ELSE LET f == ParseFloat(value)
         IN  IF ~f.ok THEN [out |-> "ok", val |-> PyNone]
             ELSE LET n == IntOfFloat(f.val)
                  IN  IF n.out = "ValueError" THEN [out |-> "ok", val |-> PyNone]
                      ELSE n

CapitalWords == {<<"p","r","i","m","a","r","y">>, <<"a","d","m","i","n">>}

\* (mutant) the capital field compared without strip()
is_capital_unstripped(capital_value) ==
    IF capital_value = None \/ capital_value = <<>> THEN FALSE
    ELSE Lower(capital_value) \in CapitalWords

is_capital(capital_value) ==
    IF capital_value = None \/ capital_value = <<>> THEN FALSE
    ELSE Lower(Strip(capital_value)) \in CapitalWords

\* (mutant) an admin capital taken for the primary capital too
IsPrimaryOrAdminRow(row_capital) ==
    Lower(Strip(OrEmpty(row_capital))) \in CapitalWords

\* (row.get("capital") or "").strip().lower() == "primary"
IsPrimaryRow(row_capital) ==
    Lower(Strip(OrEmpty(row_capital))) = <<"p","r","i","m","a","r","y">>

\* sorted(seq, key=lambda c: c["name"]): stable, ascending by name.
RECURSIVE InsertByName(_, _)
InsertByName(s, x) ==
    IF s = <<>> THEN <<x>>
    ELSE IF StrLess(x.name, Head(s).name) THEN <<x>> \o s
    ELSE <<Head(s)>> \o InsertByName(Tail(s), x)

RECURSIVE SortFrom(_, _)
SortFrom(acc, rest) ==
    IF rest = <<>> THEN acc ELSE SortFrom(InsertByName(acc, Head(rest)), Tail(rest))

\* (mutant) a sort that puts an element before its equals
RECURSIVE InsertBeforeEqual(_, _)
InsertBeforeEqual(s, x) ==
    IF s = <<>> THEN <<x>>
    ELSE IF ~StrLess(Head(s).name, x.name) THEN <<x>> \o s
    ELSE <<Head(s)>> \o InsertBeforeEqual(Tail(s), x)

RECURSIVE UnstableSortFrom(_, _)
UnstableSortFrom(acc, rest) ==
    IF rest = <<>> THEN acc
    ELSE UnstableSortFrom(InsertBeforeEqual(acc, Head(rest)), Tail(rest))

SortedByNameUnstable(seq) == UnstableSortFrom(<<>>, seq)

SortedByName(seq) == SortFrom(<<>>, seq)

\* ------------------------------------------------------------ the rows
\* csv.DictReader gives every row the header's keys; a short row has None
\* for its missing values.
FullHeader ==
    {"iso2", "iso3", "country", "city", "admin_name", "capital", "lat", "lng",
     "population"}

\* row.get(key)
Get(row, key) == IF key \in DOMAIN row THEN row[key] ELSE None

\* ------------------------------------------------------------- the state
VARIABLES
    pc,                 \* where build_from_csv is
    err,                \* the exception that ended the run, "" if none
    path_exists,        \* os.path.exists(csv_path)
    fieldnames,         \* the header of the CSV file
    consumed,           \* the rows the reader has yielded so far
    by_country_cities,  \* iso2 -> list of City Records, in input order
    countries_meta,     \* the metadata dicts, in insertion order of their iso2
    countries_list,     \* sorted(countries_meta.values(), ...), the same dicts
    prior,              \* an earlier run has left its outputs on disk
    fs                  \* the output directory and files

vars ==
    <<pc, err, path_exists, fieldnames, consumed, by_country_cities,
      countries_meta, countries_list, prior, fs>>

\* The disk before the first run, and after an earlier run over one city
\* of country ZZ.
FreshFs ==
    [dir |-> FALSE,
     cities |-> <<>>,
     json |-> [exists |-> FALSE, data |-> <<>>],
     csv |-> [exists |-> FALSE, rows |-> <<>>]]

StaleCode == <<"Z","Z">>

StaleFs ==
    [dir |-> TRUE,
     cities |-> [c \in {StaleCode} |->
                  <<[name |-> <<"o","l","d">>, country_iso2 |-> StaleCode,
                     state |-> <<>>, is_capital |-> FALSE, latitude |-> FloatZero,
                     longitude |-> FloatZero, population |-> PyNone]>>],
     json |-> [exists |-> TRUE,
               data |-> <<[iso2 |-> StaleCode, iso3 |-> <<>>, name |-> <<>>,
                           capital |-> <<>>, region |-> <<>>, subregion |-> <<>>,
                           latitude |-> IntZero, longitude |-> IntZero]>>],
     csv |-> [exists |-> TRUE,
              rows |-> <<[iso2 |-> StaleCode, iso3 |-> <<>>, name |-> <<>>,
                          capital |-> <<>>, region |-> <<>>, subregion |-> <<>>,
                          latitude |-> <<"0">>, longitude |-> <<"0">>]>>]]

Headers == {FullHeader, FullHeader \ {"iso3"}}

Init ==
    /\ pc = "start"
    /\ err = ""
    /\ path_exists \in BOOLEAN
    /\ fieldnames \in Headers
    /\ consumed = <<>>
    /\ by_country_cities = <<>>
    /\ countries_meta = <<>>
    /\ countries_list = <<>>
    /\ prior \in BOOLEAN
    /\ fs = IF prior THEN StaleFs ELSE FreshFs

\* ------------------------------------------------------------ the scan
MetaKeys(meta) == {meta[i].iso2 : i \in 1..Len(meta)}

MetaIndex(meta, iso2) == CHOOSE i \in 1..Len(meta) : meta[i].iso2 = iso2

\* (mutant) the code taken as written, not upper-cased
CountryCodeAsWritten(row) == OrEmpty(Get(row, "iso2"))

\* iso2 = (row.get("iso2") or "").upper()
CountryCode(row) == Upper(OrEmpty(Get(row, "iso2")))

\* iso3 = (row.get("iso3") or "").upper() if "iso3" in row else ""
Iso3Of(row) == IF "iso3" \in DOMAIN row THEN Upper(OrEmpty(Get(row, "iso3"))) ELSE <<>>

\* The dict a first row of a country creates.
NewMeta(iso2, row) ==
    [iso2 |-> iso2, iso3 |-> Iso3Of(row), name |-> OrEmpty(Get(row, "country")),
     capital |-> <<>>, region |-> <<>>, subregion |-> <<>>,
     latitude |-> PyNone, longitude |-> PyNone]

\* The try/except of a primary-capital row: the two coordinates are
\* assigned in turn, and ValueError sets both to None.
StorePrimary(m, row) ==
    LET lat == FloatOrZero(Get(row, "lat"))
        lng == FloatOrZero(Get(row, "lng"))
        named == [m EXCEPT !.capital = OrEmpty(Get(row, "city"))]
    IN  IF lat.ok /\ lng.ok
        THEN [named EXCEPT !.latitude = lat.val, !.longitude = lng.val]
        ELSE [named EXCEPT !.latitude = PyNone, !.longitude = PyNone]

\* by_country_cities[iso2].append(city_obj) on a defaultdict(list)
AppendCity(cities, iso2, city_obj) ==
    [c \in DOMAIN cities \cup {iso2} |->
        IF c = iso2
        THEN (IF iso2 \in DOMAIN cities THEN cities[iso2] ELSE <<>>) \o <<city_obj>>
        ELSE cities[c]]

\* One pass of the loop body over `row`: out is "skip" (continue), "ok",
\* or the exception that leaves build_from_csv.  The dict literal of
\* city_obj evaluates float(lat), float(lng), parse_population in order.
LoopBody(row, cities, meta) ==
    LET iso2 == CountryCode(row)
        lat == FloatOrZero(Get(row, "lat"))
        lng == FloatOrZero(Get(row, "lng"))
        pop == parse_population(Get(row, "population"))
        same(out) == [out |-> out, cities |-> cities, meta |-> meta]
    IN  IF iso2 = <<>> THEN same("skip")
        ELSE IF ~lat.ok \/ ~lng.ok THEN same("ValueError")
        ELSE IF pop.out # "ok" THEN same(pop.out)
        ELSE LET city_obj ==
                     [name |-> OrEmpty(Get(row, "city")),
                      country_iso2 |-> iso2,
                      state |-> OrEmpty(Get(row, "admin_name")),
                      is_capital |-> is_capital(Get(row, "capital")),
                      latitude |-> lat.val,
                      longitude |-> lng.val,
                      population |-> pop.val]
                 meta1 == IF iso2 \in MetaKeys(meta) THEN meta
                          ELSE Append(meta, NewMeta(iso2, row))
                 i == MetaIndex(meta1, iso2)
                 meta2 == IF IsPrimaryRow(Get(row, "capital"))
                          THEN [meta1 EXCEPT ![i] = StorePrimary(meta1[i], row)]
                          ELSE meta1
             IN  [out |-> "ok", cities |-> AppendCity(cities, iso2, city_obj),
                  meta |-> meta2]

\* --------------------------------------------------------- the actions
\* (mutant) the output directory made before the path is looked at
SourceNotFoundAfterMkdir ==
    /\ pc = "start"
    /\ ~path_exists
    /\ pc' = "raised"
    /\ err' = "FileNotFoundError"
    /\ fs' = [fs EXCEPT !.dir = TRUE]
    /\ UNCHANGED <<path_exists, fieldnames, consumed, by_country_cities,
                   countries_meta, countries_list, prior>>

\* if not os.path.exists(csv_path): raise FileNotFoundError
SourceNotFound ==
    /\ pc = "start"
    /\ ~path_exists
    /\ pc' = "raised"
    /\ err' = "FileNotFoundError"
    /\ UNCHANGED <<path_exists, fieldnames, consumed, by_country_cities,
                   countries_meta, countries_list, prior, fs>>

OpenCsv ==
    /\ pc = "start"
    /\ path_exists
    /\ pc' = "scan"
    /\ UNCHANGED <<err, path_exists, fieldnames, consumed, by_country_cities,
                   countries_meta, countries_list, prior, fs>>

\* for row in reader: one row of the file.
ProcessRow(row) ==
    /\ pc = "scan"
    /\ Len(consumed) < MaxRows
    /\ DOMAIN row = fieldnames
    /\ LET r == LoopBody(row, by_country_cities, countries_meta)
       IN  /\ consumed' = Append(consumed, row)
           /\ by_country_cities' = r.cities
           /\ countries_meta' = r.meta
           /\ pc' = IF r.out \in {"ok", "skip"} THEN "scan" ELSE "raised"
           /\ err' = IF r.out \in {"ok", "skip"} THEN err ELSE r.out
    /\ UNCHANGED <<path_exists, fieldnames, countries_list, prior, fs>>

\* The reader is exhausted.
EndOfRows ==
    /\ pc = "scan"
    /\ pc' = "write_cities"
    /\ UNCHANGED <<err, path_exists, fieldnames, consumed, by_country_cities,
                   countries_meta, countries_list, prior, fs>>

\* ensure_output_dirs(), then one <iso2>.json per country.
WriteCities ==
    /\ pc = "write_cities"
    /\ fs' = [fs EXCEPT
                !.dir = TRUE,
                !.cities = [c \in DOMAIN fs.cities \cup DOMAIN by_country_cities |->
                              IF c \in DOMAIN by_country_cities
                              THEN SortedByName(by_country_cities[c])
                              ELSE fs.cities[c]]]
    /\ pc' = "sort_countries"
    /\ UNCHANGED <<err, path_exists, fieldnames, consumed, by_country_cities,
                   countries_meta, countries_list, prior>>

\* (mutant) the fill of the longitude forgotten
FillLatitudeOnly(c) ==
    [c EXCEPT !.latitude = IF c.latitude = PyNone THEN IntZero ELSE c.latitude]

\* Fill None lat/long with 0, on one dict.
FillNone(c) ==
    [c EXCEPT !.latitude = IF c.latitude = PyNone THEN IntZero ELSE c.latitude,
              !.longitude = IF c.longitude = PyNone THEN IntZero ELSE c.longitude]

RECURSIVE FillAll(_)
FillAll(seq) ==
    IF seq = <<>> THEN <<>> ELSE <<FillNone(Head(seq))>> \o FillAll(Tail(seq))

\* countries_list = sorted(...), then the fill loop; the list holds the
\* dicts of countries_meta themselves, so both see the fill.
SortCountries ==
    /\ pc = "sort_countries"
    /\ countries_list' = FillAll(SortedByName(countries_meta))
    /\ countries_meta' = FillAll(countries_meta)
    /\ pc' = "write_json"
    /\ UNCHANGED <<err, path_exists, fieldnames, consumed, by_country_cities,
                   prior, fs>>

WriteJson ==
    /\ pc = "write_json"
    /\ fs' = [fs EXCEPT !.json = [exists |-> TRUE, data |-> countries_list]]
    /\ pc' = "write_csv"
    /\ UNCHANGED <<err, path_exists, fieldnames, consumed, by_country_cities,
                   countries_meta, countries_list, prior>>

\* str(n) of a natural number.
RECURSIVE NatDigits(_)
NatDigits(n) ==
    IF n < 10 THEN <<Digits[n + 1]>>
    ELSE NatDigits(n \div 10) \o <<Digits[(n % 10) + 1]>>

\* What csv.DictWriter writes for a number: "" for None, str(x) otherwise.
FormatNum(x) ==
    LET sign == IF x.neg THEN <<"-">> ELSE <<>>
    IN  CASE x.k = "None" -> <<>>
          [] x.k = "int" -> sign \o NatDigits(x.ip)
          [] x.k = "float" ->
                sign \o NatDigits(x.ip) \o <<".">> \o (IF x.fr = <<>> THEN <<"0">> ELSE x.fr)
          [] x.k = "inf" -> sign \o <<"i","n","f">>
          [] x.k = "nan" -> <<"n","a","n">>

\* writer.writerow(c): the eight columns of fieldnames, as text.
CsvRow(c) ==
    [iso2 |-> c.iso2, iso3 |-> c.iso3, name |-> c.name, capital |-> c.capital,
     region |-> c.region, subregion |-> c.subregion,
     latitude |-> FormatNum(c.latitude), longitude |-> FormatNum(c.longitude)]

RECURSIVE CsvRows(_)
CsvRows(seq) == IF seq = <<>> THEN <<>> ELSE <<CsvRow(Head(seq))>> \o CsvRows(Tail(seq))

WriteCsv ==
    /\ pc = "write_csv"
    /\ fs' = [fs EXCEPT !.csv = [exists |-> TRUE, rows |-> CsvRows(countries_list)]]
    /\ pc' = "done"
    /\ UNCHANGED <<err, path_exists, fieldnames, consumed, by_country_cities,
                   countries_meta, countries_list, prior>>

\* Everything build_from_csv does apart from reading a row.
Steps ==
    \/ SourceNotFound
    \/ OpenCsv
    \/ EndOfRows
    \/ WriteCities
    \/ SortCountries
    \/ WriteJson
    \/ WriteCsv

\* ------------------------------------------------------ the input rows
s_sp == <<" ">>
s_fr == <<"f","r">>
s_FR == <<"F","R">>
s_De == <<"D","e">>
s_a == <<"a">>
s_B == <<"B">>
s_x == <<"x">>
s_y == <<"y">>
s_primary == <<"p","r","i","m","a","r","y">>
s_Primary == <<" ","P","r","i","m","a","r","y"," ">>
s_admin == <<"a","d","m","i","n">>
s_Admin == <<"A","d","m","i","n"," ">>
s_minor == <<"m","i","n","o","r">>
s_1p5 == <<"1",".","5">>
s_m2 == <<"-","2">>
s_1234p0 == <<"1","2","3","4",".","0">>
s_inf == <<"i","n","f">>
s_nan == <<"n","a","n">>
s_m7p9 == <<"-","7",".","9">>
s_12 == <<" ","1","2"," ">>

\* A row of the dataset over header h: the country name and the iso3 code
\* go with the iso2 code as written.
MkRow(h, iso2, city, admin_name, capital, lat, lng, population) ==
    [k \in h |->
        CASE k = "iso2" -> iso2
          [] k = "iso3" -> IF iso2 = None THEN None ELSE iso2 \o s_a
          [] k = "country" -> IF iso2 = None THEN None ELSE Lower(iso2)
          [] k = "city" -> city
          [] k = "admin_name" -> admin_name
          [] k = "capital" -> capital
          [] k = "lat" -> lat
          [] k = "lng" -> lng
          [] k = "population" -> population]

\* Rows that differ in the country code: missing, empty, blank, two
\* spellings of one code, another code.
CodeRows(h) ==
    {MkRow(h, iso2, s_a, <<>>, <<>>, s_1p5, s_m2, <<>>) :
        iso2 \in {None, <<>>, s_sp, s_fr, s_FR, s_De}}

\* Rows that differ in the city name and, for equal names, in the state.
SortRows(h) ==
    {MkRow(h, iso2, cs[1], cs[2], <<>>, <<>>, <<>>, <<>>) :
        iso2 \in {s_fr, s_FR, s_De},
        cs \in {<<s_a, s_x>>, <<s_a, s_y>>, <<s_B, s_x>>}}

\* Rows that differ in the coordinates (parsable, absent, unparsable) and
\* in being the primary capital.
CoordRows(h) ==
    {MkRow(h, iso2, cl[1], <<>>, capital, cl[2], cl[3], <<>>) :
        iso2 \in {s_fr, s_De},
        capital \in {s_primary, <<>>},
        cl \in {<<s_a, s_1p5, s_m2>>, <<s_B, None, <<>>>>,
                <<s_a, s_x, s_m2>>, <<s_B, s_1p5, s_sp>>}}

\* Rows that differ in the capital field.
CapRows(h) ==
    {MkRow(h, iso2, cc[1], <<>>, cc[2], cc[3], s_m2, <<>>) :
        iso2 \in {s_fr, s_De},
        cc \in {<<s_a, s_primary, s_1p5>>, <<s_B, s_Primary, <<>>>>,
                <<s_a, s_Admin, s_1p5>>, <<s_B, s_minor, s_1p5>>,
                <<s_a, None, s_1p5>>}}

\* Rows that differ in the population field.
PopRows(h) ==
    {MkRow(h, s_fr, s_a, <<>>, <<>>, s_1p5, s_m2, population) :
        population \in {None, <<>>, s_1234p0, s_x, s_inf, s_nan, s_m7p9, s_12}}

Next == (\E row \in CodeRows(fieldnames) : ProcessRow(row)) \/ Steps

Spec == Init /\ [][Next]_vars

NextSort == (\E row \in SortRows(fieldnames) : ProcessRow(row)) \/ Steps

SpecSort == Init /\ [][NextSort]_vars

NextCoord == (\E row \in CoordRows(fieldnames) : ProcessRow(row)) \/ Steps

SpecCoord == Init /\ [][NextCoord]_vars

NextCap == (\E row \in CapRows(fieldnames) : ProcessRow(row)) \/ Steps

SpecCap == Init /\ [][NextCap]_vars

NextPop == (\E row \in PopRows(fieldnames) : ProcessRow(row)) \/ Steps

SpecPop == Init /\ [][NextPop]_vars

\* ------------------------------------------------------------ properties
\* The rows whose loop body has run to its end (the last row read is not
\* among them when it raised).
Processed ==
    IF pc = "raised" /\ consumed # <<>>
    THEN SubSeq(consumed, 1, Len(consumed) - 1)
    ELSE consumed

\* The country code of a row as the claims state it: iso2, upper-cased.
UpperCode(row) == Upper(OrEmpty(Get(row, "iso2")))

\* The capital field of a row, trimmed and lower-cased.
CapitalOf(row) == Lower(Strip(OrEmpty(Get(row, "capital"))))

Last(seq) == seq[Len(seq)]

CitiesWritten == pc \in {"sort_countries", "write_json", "write_csv", "done"}

JsonWritten == pc \in {"write_csv", "done"}

RECURSIVE SumLen(_, _)
SumLen(f, keys) ==
    IF keys = {} THEN 0
    ELSE LET k == CHOOSE x \in keys : TRUE
         IN  Len(f[k]) + SumLen(f, keys \ {k})

\* A row whose iso2 is missing or empty after trimming whitespace.
BlankCode(row) == Strip(OrEmpty(Get(row, "iso2"))) = <<>>

\* C3 (as claimed): a row whose iso2 is missing or empty after trimming
\* whitespace adds no City Record and no Country Metadata Record, and the
\* City Records written over all per-country files number the rows read
\* minus those rows.
C3_BlankCodeRowsDiscarded ==
    /\ \A c \in DOMAIN by_country_cities : Strip(c) # <<>>
    /\ \A c \in MetaKeys(countries_meta) : Strip(c) # <<>>
    /\ pc = "done" =>
          SumLen(fs.cities, DOMAIN by_country_cities)
            = Len(consumed) - Cardinality({i \in 1..Len(consumed) : BlankCode(consumed[i])})

\* C7: when the input path does not exist the run ends in FileNotFoundError
\* and the output directory, the per-country files, countries.json and
\* countries.csv are as they were before the run.
C7_SourceNotFoundWritesNothing ==
    ~path_exists =>
        /\ pc \in {"start", "raised"}
        /\ pc = "raised" => err = "FileNotFoundError"
        /\ fs = IF prior THEN StaleFs ELSE FreshFs
        /\ by_country_cities = <<>> /\ countries_meta = <<>> /\ consumed = <<>>

C7_Witness == ~path_exists /\ pc = "raised" /\ err = "FileNotFoundError" /\ ~fs.dir

\* The upper-cased codes of the rows processed that have one.
AcceptedCodes == {UpperCode(Processed[i]) : i \in 1..Len(Processed)} \ {<<>>}

\* C10: after every processed row the codes with a city list are the codes
\* with a metadata record, namely the upper-cased iso2 codes of the accepted
\* rows, one record each; countries.json and countries.csv hold one record
\* per such code, and each code has a non-empty city file of its own.
C10_OneListAndOneRecordPerCode ==
    /\ DOMAIN by_country_cities = MetaKeys(countries_meta)
    /\ MetaKeys(countries_meta) = AcceptedCodes
    /\ Len(countries_meta) = Cardinality(AcceptedCodes)
    /\ CitiesWritten =>
          \A c \in AcceptedCodes :
              /\ c \in DOMAIN fs.cities
              /\ fs.cities[c] # <<>>
              /\ \A i \in 1..Len(fs.cities[c]) : fs.cities[c][i].country_iso2 = c
    /\ JsonWritten =>
          /\ Len(fs.json.data) = Cardinality(AcceptedCodes)
          /\ MetaKeys(fs.json.data) = AcceptedCodes
    /\ pc = "done" =>
          /\ Len(fs.csv.rows) = Cardinality(AcceptedCodes)
          /\ MetaKeys(fs.csv.rows) = AcceptedCodes

C10_Witness ==
    /\ pc = "done"
    /\ \E i, j \in 1..Len(consumed) :
          /\ Get(consumed[i], "iso2") = s_fr
          /\ Get(consumed[j], "iso2") = s_FR
    /\ \E i \in 1..Len(consumed) : Get(consumed[i], "iso2") = s_De
    /\ Len(fs.json.data) = 2
    /\ Len(fs.cities[s_FR]) = 2

\* The City Record of an accepted row, field by field.
CityOf(row) ==
    [name |-> OrEmpty(Get(row, "city")),
     country_iso2 |-> UpperCode(row),
     state |-> OrEmpty(Get(row, "admin_name")),
     is_capital |-> CapitalOf(row) \in CapitalWords,
     latitude |-> FloatOrZero(Get(row, "lat")).val,
     longitude |-> FloatOrZero(Get(row, "lng")).val,
     population |-> parse_population(Get(row, "population")).val]

\* The City Records of the processed rows of one code, in input order.
RECURSIVE CitiesOfCode(_, _)
CitiesOfCode(rows, c) ==
    IF rows = <<>> THEN <<>>
    ELSE (IF UpperCode(Head(rows)) = c THEN <<CityOf(Head(rows))>> ELSE <<>>)
            \o CitiesOfCode(Tail(rows), c)

IndexPermutations(n) ==
    {p \in [1..n -> 1..n] : \A i, j \in 1..n : p[i] = p[j] => i = j}

\* out holds the elements of inp, each once, ascending by name, elements of
\* equal name in their order in inp.
StablySortedByName(out, inp) ==
    /\ Len(out) = Len(inp)
    /\ \E p \in IndexPermutations(Len(inp)) :
          /\ \A i \in 1..Len(out) : out[i] = inp[p[i]]
          /\ \A i, j \in 1..Len(out) :
                i < j => /\ ~StrLess(out[j].name, out[i].name)
                         /\ out[i].name = out[j].name => p[i] < p[j]

\* C4: the list written to a code's file is sorted ascending by city name,
\* ties in input order, and holds exactly the City Records of the accepted
\* rows whose upper-cased code is the file's code, each once.
C4_CityFilesStablySorted ==
    CitiesWritten =>
        \A c \in DOMAIN by_country_cities :
            StablySortedByName(fs.cities[c], CitiesOfCode(Processed, c))

C4_Witness ==
    /\ pc = "done"
    /\ Len(consumed) = 3
    /\ Get(consumed[1], "city") = s_a /\ Get(consumed[1], "admin_name") = s_y
    /\ Get(consumed[2], "city") = s_B
    /\ Get(consumed[3], "city") = s_a /\ Get(consumed[3], "admin_name") = s_x
    /\ \A i \in 1..3 : UpperCode(consumed[i]) = s_FR
    /\ Get(consumed[1], "iso2") # Get(consumed[3], "iso2")
    /\ fs.cities[s_FR][1].name = s_B
    /\ fs.cities[s_FR][2].state = s_y
    /\ fs.cities[s_FR][3].state = s_x

\* The record of code c in a list of metadata records.
MetaOf(meta, c) == meta[MetaIndex(meta, c)]

\* The place of the i-th row read among the rows read of its code.
RankInCode(i) ==
    Cardinality({j \in 1..i : UpperCode(consumed[j]) = UpperCode(consumed[i])})

\* A coordinate or population field that float() rejects.
Unparsable(v) == v # None /\ v # <<>> /\ ~ParseFloat(v).ok

Absent(v) == v = None \/ v = <<>>

\* C1 (as claimed): a row with a country code whose lat or lng is absent or
\* unparsable does not end the run; it yields a City Record with 0.0 for
\* that coordinate.
C1_BadCoordinateRowsKept ==
    \A i \in 1..Len(consumed) :
        LET row == consumed[i]
            c == UpperCode(row)
            badLat == Absent(Get(row, "lat")) \/ Unparsable(Get(row, "lat"))
            badLng == Absent(Get(row, "lng")) \/ Unparsable(Get(row, "lng"))
        IN  (c # <<>> /\ (badLat \/ badLng)) =>
                /\ i <= Len(Processed)
                /\ badLat => by_country_cities[c][RankInCode(i)].latitude = FloatZero
                /\ badLng => by_country_cities[c][RankInCode(i)].longitude = FloatZero

\* C2 (as claimed): a primary-capital row with an unparsable latitude or
\* longitude does not end the run, and its country is written to
\* countries.json with latitude = 0 and longitude = 0.
C2_BadPrimaryCoordinateGivesZero ==
    \A i \in 1..Len(consumed) :
        LET row == consumed[i]
            c == UpperCode(row)
        IN  (/\ c # <<>>
             /\ CapitalOf(row) = s_primary
             /\ Unparsable(Get(row, "lat")) \/ Unparsable(Get(row, "lng"))) =>
                /\ i <= Len(Processed)
                /\ JsonWritten =>
                      /\ MetaOf(fs.json.data, c).latitude = IntZero
                      /\ MetaOf(fs.json.data, c).longitude = IntZero

\* What the countries outputs are to hold for code c: the city and the
\* coordinates of its primary-capital row (the last one, when several rows
\* of the code are marked primary), or "" and 0 when it has none.
ExpectedCapital(c) ==
    LET prim == {i \in 1..Len(Processed) :
                    UpperCode(Processed[i]) = c /\ CapitalOf(Processed[i]) = s_primary}
    IN  IF prim = {}
        THEN [capital |-> <<>>, latitude |-> IntZero, longitude |-> IntZero]
        ELSE LET row == Processed[CHOOSE i \in prim : \A j \in prim : j <= i]
             IN  [capital |-> OrEmpty(Get(row, "city")),
                  latitude |-> FloatOrZero(Get(row, "lat")).val,
                  longitude |-> FloatOrZero(Get(row, "lng")).val]

\* C8: no record of countries.json or countries.csv has a null latitude or
\* longitude (an empty cell, in the CSV); a country without a primary-capital
\* row has capital "" and coordinates 0, a country with one has that row's
\* city name and parsed coordinates.
C8_CountriesOutputHasNoNull ==
    /\ JsonWritten =>
          \A k \in 1..Len(fs.json.data) :
              LET rec == fs.json.data[k]
                  e == ExpectedCapital(rec.iso2)
              IN  /\ rec.latitude # PyNone /\ rec.longitude # PyNone
                  /\ rec.capital = e.capital
                  /\ rec.latitude = e.latitude
                  /\ rec.longitude = e.longitude
    /\ pc = "done" =>
          \A k \in 1..Len(fs.csv.rows) :
              LET rec == fs.csv.rows[k]
                  e == ExpectedCapital(rec.iso2)
              IN  /\ rec.latitude # <<>> /\ rec.longitude # <<>>
                  /\ rec.capital = e.capital
                  /\ rec.latitude = FormatNum(e.latitude)
                  /\ rec.longitude = FormatNum(e.longitude)

C8_Witness ==
    /\ pc = "done"
    /\ Len(fs.json.data) = 2
    /\ \E k \in 1..2 :
          /\ fs.json.data[k].capital = <<>>
          /\ fs.json.data[k].latitude = IntZero
          /\ fs.csv.rows[k].longitude = <<"0">>
    /\ \E k \in 1..2 :
          /\ fs.json.data[k].capital = s_a
          /\ fs.json.data[k].latitude = ParseFloat(s_1p5).val
          /\ fs.csv.rows[k].longitude = <<"-","2",".","0">>

\* A population field that is absent, empty or no finite number.
NotANumber(v) == Absent(v) \/ ~ParseFloat(v).ok \/ ParseFloat(v).val.k # "float"

\* C5 (as claimed): population parsing never ends the run, and an absent,
\* empty or unparsable population (one that is no finite number) gives the
\* unknown sentinel None, never 0.
C5_PopulationNeverAborts ==
    \A i \in 1..Len(consumed) :
        LET row == consumed[i]
            c == UpperCode(row)
        IN  c # <<>> =>
                /\ i <= Len(Processed)
                /\ NotANumber(Get(row, "population")) =>
                      by_country_cities[c][RankInCode(i)].population = PyNone

\* A step that runs the loop body to its end on an accepted row.
AcceptedRowStep ==
    /\ pc = "scan" /\ pc' = "scan"
    /\ Len(consumed') = Len(consumed) + 1
    /\ UpperCode(Last(consumed')) # <<>>

\* The capital fields of code c before a row is processed: those of its
\* record, or those of a new record.
CapitalFields(meta, c) ==
    IF c \in MetaKeys(meta)
    THEN [capital |-> MetaOf(meta, c).capital, latitude |-> MetaOf(meta, c).latitude,
          longitude |-> MetaOf(meta, c).longitude]
    ELSE [capital |-> <<>>, latitude |-> PyNone, longitude |-> PyNone]

\* What C6 asks of one step of the scan.
C6_Step ==
    AcceptedRowStep =>
        LET row == Last(consumed')
            c == UpperCode(row)
            before == CapitalFields(countries_meta, c)
            after == CapitalFields(countries_meta', c)
        IN  /\ Last(by_country_cities'[c]).is_capital
                  = (CapitalOf(row) \in {s_primary, s_admin})
            /\ c \in MetaKeys(countries_meta')
            /\ IF CapitalOf(row) = s_primary
               THEN after = [capital |-> OrEmpty(Get(row, "city")),
                             latitude |-> FloatOrZero(Get(row, "lat")).val,
                             longitude |-> FloatOrZero(Get(row, "lng")).val]
               ELSE after = before
            /\ \A k \in 1..Len(countries_meta) :
                  countries_meta[k].iso2 # c => countries_meta'[k] = countries_meta[k]

\* C6: an accepted row gives is_capital = true exactly when its capital
\* field, trimmed and lower-cased, is "primary" or "admin"; it sets the
\* capital name and coordinates of its country's metadata exactly when that
\* is "primary", and otherwise leaves them (and every other country's
\* record) as they were; " Primary " behaves as "primary".
C6_CapitalClassification == [][C6_Step]_vars

C6_Witness ==
    /\ pc = "done"
    /\ Len(consumed) = 3
    /\ \A i \in 1..3 : Get(consumed[i], "iso2") = s_fr
    /\ Get(consumed[1], "capital") = s_Primary
    /\ Get(consumed[2], "capital") = s_Admin
    /\ Get(consumed[3], "capital") = s_minor
    /\ by_country_cities[s_FR][1].is_capital
    /\ by_country_cities[s_FR][2].is_capital
    /\ ~by_country_cities[s_FR][3].is_capital
    /\ MetaOf(countries_meta, s_FR).capital = s_B

\* Some row read so far is a primary-capital row of code c.
HasPrimaryRow(c) ==
    \E i \in 1..Len(consumed) :
        UpperCode(consumed[i]) = c /\ CapitalOf(consumed[i]) = s_primary

\* C9 (as claimed): once a primary-capital row has populated the record of
\* a code, no later row changes any field of that record.
C9_MutatedAtMostOnce ==
    [][\A k \in 1..Len(countries_meta) :
          (pc = "scan" /\ HasPrimaryRow(countries_meta[k].iso2)) =>
              countries_meta'[k] = countries_meta[k]]_vars

\* What the amended C9 asks of one step of the scan.
C9_Step ==
    \A k \in 1..Len(countries_meta) :
        pc = "scan" =>
            LET old == countries_meta[k]
                new == countries_meta'[k]
                primaryHere ==
                    /\ AcceptedRowStep
                    /\ UpperCode(Last(consumed')) = old.iso2
                    /\ CapitalOf(Last(consumed')) = s_primary
            IN  /\ new # old => primaryHere
                /\ new.iso2 = old.iso2 /\ new.iso3 = old.iso3 /\ new.name = old.name
                /\ new.region = old.region /\ new.subregion = old.subregion
                /\ primaryHere =>
                      /\ new.capital = OrEmpty(Get(Last(consumed'), "city"))
                      /\ new.latitude = FloatOrZero(Get(Last(consumed'), "lat")).val
                      /\ new.longitude = FloatOrZero(Get(Last(consumed'), "lng")).val

\* C9 (amended): while rows are read, a record changes only when a row of
\* its code marked primary is processed; every such row, a later one too,
\* overwrites the capital name and coordinates with its own; no row changes
\* iso2, iso3, name, region or subregion.
C9_OnlyPrimaryRowsMutate == [][C9_Step]_vars

C9_Witness ==
    /\ Len(consumed) = 2
    /\ pc = "scan"
    /\ UpperCode(consumed[1]) = s_FR /\ UpperCode(consumed[2]) = s_FR
    /\ Get(consumed[1], "capital") = s_primary /\ Get(consumed[1], "city") = s_a
    /\ Get(consumed[2], "capital") = s_Primary /\ Get(consumed[2], "city") = s_B
    /\ MetaOf(countries_meta, s_FR).capital = s_B
    /\ MetaOf(countries_meta, s_FR).latitude = FloatZero

====
